---------------------------- MODULE Spec2Model ----------------------------
(***************************************************************************)
(* Model of the routing and consolidation pipeline of clarys-mvp:          *)
(*   app/agents/llm_extractor_agent.py    (LLMExtractorAgent)              *)
(*   app/agents/regex_extractor_agent.py  (RegexExtractorAgent)            *)
(*   app/services/routing_service.py      (RoutingService)                 *)
(*   app/services/coordinator_agent.py    (CoordinatorAgent)               *)
(*   app/services/polkadot_api_client.py  (PolkadotAPIClient)              *)
(*                                                                         *)
(* A prompt is a sequence of whitespace-separated tokens.  TLC cannot      *)
(* take strings apart, so every token of the vocabulary carries its        *)
(* lexical facts (lower-case form, length, digits, word pieces) in the     *)
(* tables below, and the regular expressions of the source are evaluated   *)
(* on token sequences.                                                     *)
(***************************************************************************)
EXTENDS Integers, Sequences, FiniteSets, TLC

\* ------------------------------------------------------------------ bounds
MaxPhrases == 2
MaxCalls == 3
MaxPipelinePhrases == 1
MaxBatch == 3
MaxBeneficiaries == 2
MaxRecords == 3
requests_per_window == 2
window_size_seconds == 2
MaxTime == 3
MaxRequests == 5
MaxSessions == 2

\* -------------------------------------------------------------- vocabulary
URL1 == "https://polkadot.polkassembly.io/referenda/1679"
URL2 == "https://polkadot.polkassembly.io/post/999"

Phrases ==
    { <<"proposal", "1679">>,
      <<"Discussion", "999">>,
      <<"proposal">>,
      <<"id">>,
      <<"12">>,
      <<"999">>,
      <<"#12">>,
      <<"about", "AI", "treasury">>,
      <<"treasury", "grants", "funding">>,
      <<"Compare", "ID123", "and", "ID456">>,
      <<URL1>>,
      <<URL2>> }

RECURSIVE PromptsOf(_)
PromptsOf(n) ==
    IF n = 0 THEN { <<>> }
    ELSE PromptsOf(n - 1) \cup { p \o ph : p \in PromptsOf(n - 1), ph \in Phrases }

Prompts == PromptsOf(MaxPhrases)

\* the prompts given to the three pipelines
PipelinePrompts == PromptsOf(MaxPipelinePhrases)

\* str.lower()
Lower(t) ==
    CASE t = "Discussion" -> "discussion"
      [] t = "AI"         -> "ai"
      [] t = "Compare"    -> "compare"
      [] t = "ID123"      -> "id123"
      [] t = "ID456"      -> "id456"
      [] OTHER            -> t

\* len() of a lower-cased word piece
StrLen(w) ==
    CASE w \in {"id", "ai", "io", "12"}                         -> 2
      [] w \in {"and", "999", "123", "456"}                     -> 3
      [] w \in {"1679", "post"}                                 -> 4
      [] w \in {"about", "https", "id123", "id456"}             -> 5
      [] w \in {"grants"}                                       -> 6
      [] w \in {"funding", "compare"}                           -> 7
      [] w \in {"proposal", "treasury", "polkadot"}             -> 8
      [] w \in {"referenda"}                                    -> 9
      [] w \in {"discussion"}                                   -> 10
      [] w \in {"polkassembly"}                                 -> 12
      [] OTHER                                                  -> 0

\* tokens that are a run of digits and nothing else
IsDigits(t) == t \in {"1679", "999", "12", "123", "456"}

\* int(s) for a digit string; the strings int() rejects are not in the domain
IntOf(s) ==
    CASE s = "12"   -> 12
      [] s = "123"  -> 123
      [] s = "456"  -> 456
      [] s = "999"  -> 999
      [] s = "1679" -> 1679

\* int(s) raises ValueError
IntRaises(s) == ~IsDigits(s)

IsUrl(t) == t \in {URL1, URL2}

\* letters immediately followed by digits, e.g. ID123
IsAlnumId(t) == t \in {"ID123", "ID456"}

\* the digits that follow the letters "id" in a lower-cased token
DigitsAfterId(t) ==
    CASE Lower(t) = "id123" -> "123"
      [] Lower(t) = "id456" -> "456"
      [] OTHER              -> ""

\* the run of digits that ends the token and starts at a word boundary
\* ("" when there is none)
TrailingDigits(t) ==
    CASE IsDigits(t) -> t
      [] t = "#12"   -> "12"
      [] t = URL1    -> "1679"
      [] t = URL2    -> "999"
      [] OTHER       -> ""

\* re.findall(r'\b\w+\b', token.lower())
TokWords(t) ==
    CASE t = URL1  -> <<"https", "polkadot", "polkassembly", "io", "referenda", "1679">>
      [] t = URL2  -> <<"https", "polkadot", "polkassembly", "io", "post", "999">>
      [] t = "#12" -> <<"12">>
      [] OTHER     -> <<Lower(t)>>

\* s occurs in the text after the scheme of url: re.search(rf'https?://[^\s]*{s}')
InUrlTail(s, url) ==
    \/ url = URL1 /\ s \in {"1679", "referenda"}
    \/ url = URL2 /\ s \in {"999", "post"}

\* ----------------------------------------------------------- list helpers
Range(s) == { s[i] : i \in 1..Len(s) }

RECURSIVE Flatten(_)
Flatten(ss) == IF ss = <<>> THEN <<>> ELSE Head(ss) \o Flatten(Tail(ss))

\* every list that enumerates the set S once: the orders list(set) can give
Orderings(S) ==
    { f \in [1..Cardinality(S) -> S] : \A i, j \in 1..Cardinality(S) : f[i] = f[j] => i = j }

Take(s, n) == SubSeq(s, 1, IF Len(s) < n THEN Len(s) ELSE n)

\* ------------------------------------------- RoutingService (fallback path)
\* the alternation (?:proposal|referenda?|referendum|discussion)
RouteKeywords == {"proposal", "referenda", "referend", "referendum", "discussion"}

IsRouteKeyword(t) == Lower(t) \in RouteKeywords

\* r'\b(?:proposal|referenda?|referendum|discussion)\s+(?:id\s+)?(\d+)\b'
\* on prompt.lower(): the ids captured, in match order
RECURSIVE IdPattern1(_, _)
IdPattern1(toks, i) ==
    IF i > Len(toks) THEN <<>>
    ELSE IF IsRouteKeyword(toks[i]) /\ i + 1 <= Len(toks) /\ IsDigits(toks[i + 1])
         THEN <<toks[i + 1]>> \o IdPattern1(toks, i + 2)
    ELSE IF /\ IsRouteKeyword(toks[i]) /\ i + 2 <= Len(toks)
            /\ Lower(toks[i + 1]) = "id" /\ IsDigits(toks[i + 2])
         THEN <<toks[i + 2]>> \o IdPattern1(toks, i + 3)
    ELSE IdPattern1(toks, i + 1)

\* r'\b(\d+)\s*(?:proposal|referenda?|referendum|discussion)\b'
RECURSIVE IdPattern2(_, _)
IdPattern2(toks, i) ==
    IF i > Len(toks) THEN <<>>
    ELSE IF TrailingDigits(toks[i]) # "" /\ i + 1 <= Len(toks) /\ IsRouteKeyword(toks[i + 1])
         THEN <<TrailingDigits(toks[i])>> \o IdPattern2(toks, i + 2)
    ELSE IdPattern2(toks, i + 1)

\* r'\b(?:id|#)\s*(\d+)\b': "#" never follows a word boundary in a
\* space-separated prompt, so only the "id" alternative can match
RECURSIVE IdPattern3(_, _)
IdPattern3(toks, i) ==
    IF i > Len(toks) THEN <<>>
    ELSE IF DigitsAfterId(toks[i]) # ""
         THEN <<DigitsAfterId(toks[i])>> \o IdPattern3(toks, i + 1)
    ELSE IF Lower(toks[i]) = "id" /\ i + 1 <= Len(toks) /\ IsDigits(toks[i + 1])
         THEN <<toks[i + 1]>> \o IdPattern3(toks, i + 2)
    ELSE IdPattern3(toks, i + 1)

\* extracted_ids after the loop over id_patterns
ExtractedIds(prompt) ==
    IdPattern1(prompt, 1) \o IdPattern2(prompt, 1) \o IdPattern3(prompt, 1)

\* list(S): one list that enumerates the set S
ListOf(S) == CHOOSE f \in Orderings(S) : TRUE

\* insert x into the list s, sorted on int, after the elements that are not greater
RECURSIVE InsertByInt(_, _)
InsertByInt(x, s) ==
    IF s = <<>> THEN <<x>>
    ELSE IF IntOf(x) < IntOf(Head(s)) THEN <<x>> \o s
    ELSE <<Head(s)>> \o InsertByInt(x, Tail(s))

\* sorted(l, key=int) for a list of digit strings (stable)
RECURSIVE SortedByInt(_)
SortedByInt(l) ==
    IF l = <<>> THEN <<>>
    ELSE InsertByInt(l[Len(l)], SortedByInt(SubSeq(l, 1, Len(l) - 1)))

\* "discussion" in prompt.lower()
HasDiscussion(prompt) == \E i \in 1..Len(prompt) : Lower(prompt[i]) = "discussion"

stop_words ==
    {"tell", "me", "about", "the", "a", "an", "and", "or", "but", "in", "on",
     "at", "to", "for", "of", "with", "by"}

\* re.findall(r'\b\w+\b', prompt.lower())
Words(prompt) == Flatten([i \in 1..Len(prompt) |-> TokWords(prompt[i])])

RECURSIVE SelectSeqBy(_, _)
SelectSeqBy(s, keep) ==
    IF s = <<>> THEN <<>>
    ELSE (IF Head(s) \in keep THEN <<Head(s)>> ELSE <<>>) \o SelectSeqBy(Tail(s), keep)

\* [word for word in words if word not in stop_words and len(word) > 2]
KeywordList(prompt) ==
    LET words == Words(prompt)
    IN  SelectSeqBy(words, { w \in Range(words) : w \notin stop_words /\ StrLen(w) > 2 })

KeywordLimit == 5

\* A routing decision; keywords is the list that " ".join turns into the
\* keywords string (the empty list is the empty string)
Decision(ds, ids, pt, kw) ==
    [data_source |-> ds, ID |-> ids, proposal_type |-> pt, keywords |-> kw]

_fallback_routing_logic(prompt) ==
    LET unique_ids == SortedByInt(ListOf(Range(ExtractedIds(prompt))))
    IN  IF unique_ids # <<>>
        THEN Decision("dynamic", unique_ids,
                      IF HasDiscussion(prompt) THEN "Discussion" ELSE "ReferendumV2",
                      <<>>)
        ELSE Decision("algolia", <<>>, "", Take(KeywordList(prompt), KeywordLimit))

\* --------------------------------------------------- RegexExtractorAgent
\* RegexExtractorAgent.process: the set urls.  The vocabulary has no dotted
\* bare domain, so the secondary patterns add nothing.
RegexLinks(text) == { text[i] : i \in { j \in 1..Len(text) : IsUrl(text[j]) } }

\* ----------------------------------------------------- LLMExtractorAgent
\* re.search(rf'https?://[^\s]*{re.escape(match)}', text)
InSomeUrl(s, text) == \E i \in 1..Len(text) : IsUrl(text[i]) /\ InUrlTail(s, text[i])

\* r'\bproposal\s+(?:id\s+)?(\d+)' (re.IGNORECASE): the captured ids
ProposalMatches(text) ==
    { text[i + 1] : i \in { j \in 1..(Len(text) - 1) :
                             Lower(text[j]) = "proposal" /\ IsDigits(text[j + 1]) } }
    \cup
    { text[i + 2] : i \in { j \in 1..(Len(text) - 2) :
                             /\ Lower(text[j]) = "proposal"
                             /\ Lower(text[j + 1]) = "id"
                             /\ IsDigits(text[j + 2]) } }

\* matches of the letter+digit patterns \b[A-Z]{2,}\d+\b, \b[A-Z]+\d+[A-Z]*\b,
\* \b\w*ID\d+\w*\b and \b[A-Z]{1,5}\d{2,}\b (re.IGNORECASE)
AlnumMatches(text) == { text[i] : i \in { j \in 1..Len(text) : IsAlnumId(text[j]) } }

\* matches of r'\b(\d{3,})\b'
StandaloneNumbers(text) ==
    { TrailingDigits(text[i]) : i \in { j \in 1..Len(text) :
          /\ TrailingDigits(text[j]) # ""
          /\ StrLen(TrailingDigits(text[j])) >= 3 } }

\* _fallback_extraction that applies the patterns of URL-free text to every text
_fallback_extraction_Permissive(text) ==
    ProposalMatches(text) \cup StandaloneNumbers(text) \cup AlnumMatches(text)

\* _fallback_extraction: the set ids before list(ids)
_fallback_extraction(text) ==
    LET has_urls == \E i \in 1..Len(text) : IsUrl(text[i])
    IN  IF has_urls
        THEN { m \in ProposalMatches(text) \cup AlnumMatches(text) : ~InSomeUrl(m, text) }
        ELSE ProposalMatches(text) \cup StandaloneNumbers(text) \cup AlnumMatches(text)

\* A piece of a model response that is not JSON: q says it is in double quotes
Piece(q, t) == [q |-> q, t |-> t]

\* r'"([A-Z0-9_]+\d+[A-Z0-9_]*)"' (re.IGNORECASE): the quoted pieces made of
\* letters and digits that hold a digit after their first character
QuotedMatches(resp) ==
    SelectSeqBy([i \in 1..Len(resp) |-> IF resp[i].q THEN resp[i].t ELSE ""],
                { t \in { resp[i].t : i \in 1..Len(resp) } : IsDigits(t) \/ IsAlnumId(t) })

\* _extract_ids_from_text: the lists it can return
_extract_ids_from_text(resp) ==
    IF QuotedMatches(resp) # <<>>
    THEN { QuotedMatches(resp) }
    ELSE Orderings({ resp[i].t : i \in { j \in 1..Len(resp) : IsAlnumId(resp[j].t) } })

\* What the model call of _safe_gemini_call can come back with:
\*   call_error     generate_content or the client raised: the text "Error: ..."
\*   empty          response.text is None or ""
\*   mentions_error a completion whose text contains "Error"
\*   json_list      a completion holding a JSON array (ids: its elements)
\*   json_other     a completion without [ ] that decodes to a non-list
\*   bad_json       a completion that does not decode (text: its pieces)
Resp(kind, ids, text) == [kind |-> kind, ids |-> ids, text |-> text]

ExtractorResponses ==
    { Resp("call_error", <<>>, <<>>),
      Resp("empty", <<>>, <<>>),
      Resp("mentions_error", <<>>, <<>>),
      Resp("json_other", <<>>, <<>>) }
    \cup { Resp("json_list", l, <<>>) :
             l \in { <<>>, <<"1679">>, <<"999", "12">>, <<"ID123">>, <<"1679", "1679">> } }
    \cup { Resp("bad_json", <<>>, t) :
             t \in { << Piece(TRUE, "1679"), Piece(TRUE, "ID123") >>,
                     << Piece(FALSE, "ID123"), Piece(FALSE, "and"), Piece(FALSE, "1679") >>,
                     << Piece(FALSE, "about") >> } }

\* GeminiPathRaises without the truth test on response ('if "Error" not in response')
GeminiPathRaises_NoEmptyCheck(resp) == resp.kind \in {"call_error", "mentions_error"}

\* the model path of process raises into "except Exception as gemini_error"
GeminiPathRaises(resp) == resp.kind \in {"call_error", "empty", "mentions_error"}

\* LLMExtractorAgent.process once the model call has come back with resp:
\* the lists result["ids"] can be
ProcessWithResponse(input_data, resp) ==
    IF GeminiPathRaises(resp) THEN Orderings(_fallback_extraction(input_data))
    ELSE IF resp.kind = "json_list" THEN { resp.ids }
    ELSE IF resp.kind = "json_other" THEN { <<>> }
    ELSE _extract_ids_from_text(resp.text)

\* ------------------------------------------------ RoutingService.route_request
\* dict.get(key, default) on a decoded JSON object
Get(d, key, default) == IF key \in DOMAIN d THEN d[key] ELSE default

\* What the router's model call can come back with:
\*   call_raises   _safe_gemini_call raised (network error, no text)
\*   not_json      a completion json.loads rejects
\*   json_nondict  a completion that decodes to a list, number or string
\*   json_dict     a completion that decodes to an object (obj)
RouterResp(kind, obj) == [kind |-> kind, obj |-> obj]

ModelObjects ==
    { [data_source |-> "dynamic", ID |-> <<"1679">>, proposal_type |-> "ReferendumV2", keywords |-> <<>>],
      [data_source |-> "dynamic", ID |-> <<"999", "1679">>, proposal_type |-> "Discussion", keywords |-> <<>>],
      [data_source |-> "dynamic", ID |-> <<>>, proposal_type |-> "", keywords |-> <<>>],
      [data_source |-> "algolia", ID |-> <<>>, proposal_type |-> "", keywords |-> <<"treasury">>],
      [data_source |-> "algolia", ID |-> <<>>, proposal_type |-> "", keywords |-> <<>>],
      [data_source |-> "both", ID |-> <<"1679">>, proposal_type |-> "ReferendumV2", keywords |-> <<"treasury">>],
      [ID |-> <<"1679">>],
      [keywords |-> <<"treasury", "grants">>] }

RouterResponses ==
    { RouterResp("call_raises", <<>>), RouterResp("not_json", <<>>), RouterResp("json_nondict", <<>>) }
    \cup { RouterResp("json_dict", o) : o \in ModelObjects }

\* the outcome of a call: a value, or an exception of class exc
Returned(v) == [raised |-> FALSE, exc |-> "", value |-> v]
Raised(exc) == [raised |-> TRUE, exc |-> exc, value |-> <<>>]

\* lines 138-162: the model call, json.loads and the building of valid_result
RouteByModel(rresp) ==
    CASE rresp.kind = "call_raises"  -> Raised("Exception")
      [] rresp.kind = "not_json"     -> Raised("JSONDecodeError")
      [] rresp.kind = "json_nondict" -> Raised("AttributeError")
      [] OTHER ->
           Returned(Decision(Get(rresp.obj, "data_source", "algolia"),
                             Get(rresp.obj, "ID", <<>>),
                             Get(rresp.obj, "proposal_type", ""),
                             Get(rresp.obj, "keywords", <<>>)))

\* route_request whose handler of JSONDecodeError returns the default decision
route_request_DefaultOnBadJson(prompt, client, rresp) ==
    IF ~client
    THEN [Returned(_fallback_routing_logic(prompt)) EXCEPT !.exc = "fallback"]
    ELSE LET r == RouteByModel(rresp)
         IN  IF r.raised /\ r.exc = "JSONDecodeError"
             THEN [Returned(Decision("algolia", <<>>, "", <<>>)) EXCEPT !.exc = "fallback"]
             ELSE IF r.raised
             THEN [Returned(_fallback_routing_logic(prompt)) EXCEPT !.exc = "fallback"]
             ELSE r

\* route_request: the decision returned, or the exception that escapes.
\* via tells whether the model's decision or the fallback was returned.
route_request(prompt, client, rresp) ==
    IF ~client
    THEN [Returned(_fallback_routing_logic(prompt)) EXCEPT !.exc = "fallback"]
    ELSE LET r == RouteByModel(rresp)
         IN  IF r.raised /\ r.exc = "JSONDecodeError"
             THEN [Returned(_fallback_routing_logic(prompt)) EXCEPT !.exc = "fallback"]
             ELSE IF r.raised
             THEN [Returned(_fallback_routing_logic(prompt)) EXCEPT !.exc = "fallback"]
             ELSE r

\* ------------------------------------------- CoordinatorAgent.process_prompt
\* sorted(list(set(links))): ".../post/999" sorts before ".../referenda/1679"
SortedLinks(S) == SelectSeqBy(<<URL2, URL1>>, S)

\* process_prompt that hands the extractors' lists on as they came
process_prompt_Unmerged(llm, regex) ==
    IF llm.raised THEN Raised(llm.exc)
    ELSE IF regex.raised THEN Raised(regex.exc)
    ELSE IF \E x \in Range(llm.value) : IntRaises(x)
    THEN Raised("ValueError")
    ELSE Returned([ids |-> llm.value, links |-> SortedLinks(regex.value)])

\* process_prompt after asyncio.gather: llm and regex are the outcomes of the
\* two extractor tasks (value: the ids list, the links set)
process_prompt(llm, regex) ==
    IF llm.raised THEN Raised(llm.exc)
    ELSE IF regex.raised THEN Raised(regex.exc)
    ELSE LET id_set == Range(llm.value)
         IN  IF \E x \in id_set : IntRaises(x)
             THEN Raised("ValueError")
             ELSE Returned([ids |-> SortedByInt(ListOf(id_set)),
                            links |-> SortedLinks(regex.value)])


\* ------------------------------------------------------- PolkadotAPIClient
\* ProposalData: the fields the pipeline reads.  A record built on a failed
\* fetch keeps the dataclass default proposal_type and carries an error.
\* title and status are "Error" on a failed fetch and come from the API's
\* payload otherwise; error is TRUE for a non-empty error message.
ProposalData(id, proposal_type, failed) ==
    [id |-> id, proposal_type |-> IF failed THEN "ReferendumV2" ELSE proposal_type, error |-> failed,
     title |-> IF failed THEN "Error" ELSE "fetched", status |-> IF failed THEN "Error" ELSE "fetched"]

\* How the fetch of one id can end:
\*   ok             the API answers with the proposal
\*   http_error     raise_for_status raises httpx.HTTPStatusError
\*   network_error  any other exception inside the try of fetch_proposal
\*   raises         the task ends with an exception (gather hands it back)
FetchOutcomes == {"ok", "http_error", "network_error", "raises"}

\* fetch_proposal: the result of the task for one id
fetch_proposal(proposal_id, proposal_type, outcome) ==
    CASE outcome = "ok"     -> Returned(ProposalData(proposal_id, proposal_type, FALSE))
      [] outcome = "raises" -> Raised("Exception")
      [] OTHER              -> Returned(ProposalData(proposal_id, proposal_type, TRUE))

\* the result slots of gather after the tasks order[k..] completed in that order
RECURSIVE GatherSlots(_, _, _, _)
GatherSlots(slots, tasks, order, k) ==
    IF k > Len(order) THEN slots
    ELSE GatherSlots([slots EXCEPT ![order[k]] = tasks[order[k]]], tasks, order, k + 1)

\* gather that hands the results back as the tasks complete
gather_AsCompleted(tasks, order) == [k \in 1..Len(order) |-> tasks[order[k]]]

\* asyncio.gather(*tasks, return_exceptions=True): tasks are the results the
\* tasks end with, order the order in which they complete; each result goes
\* to the slot of its task
gather(tasks, order) ==
    GatherSlots([i \in 1..Len(tasks) |-> Raised("pending")], tasks, order, 1)

\* fetch_multiple_proposals whose gather lacks return_exceptions=True
FetchMultipleProposals_NoReturnExceptions(proposal_ids, proposal_type, outcomes, order) ==
    LET tasks == [i \in 1..Len(proposal_ids) |->
                     fetch_proposal(proposal_ids[i], proposal_type, outcomes[i])]
        proposals == gather(tasks, order)
    IN  IF \E i \in 1..Len(proposals) : proposals[i].raised
        THEN Raised("Exception")
        ELSE Returned([i \in 1..Len(proposals) |-> proposals[i].value])

\* fetch_multiple_proposals, lines 114-148: outcomes[i] is how the fetch of
\* proposal_ids[i] ends, order the completion order of the tasks
FetchMultipleProposals(proposal_ids, proposal_type, outcomes, order) ==
    IF proposal_ids = <<>> THEN Returned(<<>>)
    ELSE LET tasks == [i \in 1..Len(proposal_ids) |->
                          fetch_proposal(proposal_ids[i], proposal_type, outcomes[i])]
             proposals == gather(tasks, order)
         IN  Returned([i \in 1..Len(proposals) |->
                          IF proposals[i].raised
                          THEN ProposalData(proposal_ids[i], proposal_type, TRUE)
                          ELSE proposals[i].value])

\* fetch_multiple_proposals as the pipelines use it: failing is the set of
\* ids whose fetch fails, the tasks completing in the order they were issued
fetch_multiple_proposals(proposal_ids, proposal_type, failing) ==
    FetchMultipleProposals(proposal_ids, proposal_type,
        [i \in 1..Len(proposal_ids) |->
            IF proposal_ids[i] \in failing THEN "network_error" ELSE "ok"],
        [i \in 1..Len(proposal_ids) |-> i]).value

\* --------------------------------------------- search-index collaborator
Hit(index, proposalType) == [index |-> index, proposalType |-> proposalType]

\* the hit lists search_posts can return; index "Unknown" is a hit without index
SearchResults ==
    { <<>>,
      <<Hit("1679", "ReferendumV2")>>,
      <<Hit("1679", "ReferendumV2"), Hit("999", "Discussion")>>,
      <<Hit("Unknown", "ReferendumV2"), Hit("999", "Discussion")>>,
      <<Hit("1679", "ReferendumV2"), Hit("1679", "Discussion")>> }

\* RoutingService.process_routed_request: the routing result with the hits
\* attached; found is what search_algolia returns if it is called
process_routed_request(prompt, client, rresp, found) ==
    LET r == route_request(prompt, client, rresp)
    IN  IF r.raised THEN r
        ELSE LET searched == r.value.data_source = "algolia" /\ r.value.keywords # <<>>
             IN  [r EXCEPT !.value = [decision |-> r.value,
                                      search_results |-> IF searched THEN found ELSE <<>>,
                                      queries |-> IF searched THEN 1 ELSE 0]]

\* ------------------------------------------------- CoordinatorAgent routes
\* [p for p in proposal_data_list if not (hasattr(p, 'error') and p.error)]
RECURSIVE ValidProposals(_)
ValidProposals(l) ==
    IF l = <<>> THEN <<>>
    ELSE (IF Head(l).error THEN <<>> ELSE <<Head(l)>>) \o ValidProposals(Tail(l))

\* what a route hands back to the pipeline
\* mapping: the id -> type mapping the route built (in insertion order);
\* batches: the fetch_multiple_proposals calls it issued; fetch_client: the
\* client that performed them; scoped_client: what became of the client of
\* "async with PolkadotAPIClient() as api_client"; extraction: what
\* process_prompt returned to the route
RouteResult(ids, links, records, analysis, calls, queries) ==
    [ids |-> ids, links |-> links, proposal_data_list |-> records,
     analysis |-> analysis, calls |-> calls, queries |-> queries,
     mapping |-> <<>>, batches |-> <<>>, fetch_client |-> "none", scoped_client |-> "none",
     extraction |-> [ids |-> <<>>, links |-> <<>>]]

\* ------------------------------------------------------- _calculate_reward
\* A beneficiary of the API's payload.  amount is the text of the "amount"
\* field ("missing": the key is absent, "abc": not a number, "null": the JSON
\* null, "1e999": a JSON number beyond the float range, read as infinity),
\* assetId the "assetId" field.
Beneficiary(amount, assetId) == [amount |-> amount, assetId |-> assetId]

Amounts == {"1000000", "10000000000", "0", "-1000000", "abc", "missing", "null", "1e999"}

AssetIds == {"1337", "0"}

\* the exception int(beneficiary.get("amount", 0)) raises, "" when it
\* returns: int("abc") ValueError, int(None) TypeError, int(inf) OverflowError
AmountError(a) ==
    CASE a = "abc"   -> "ValueError"
      [] a = "null"  -> "TypeError"
      [] a = "1e999" -> "OverflowError"
      [] OTHER       -> ""

\* int(beneficiary.get("amount", 0)) raises
AmountRaises(a) == AmountError(a) # ""

\* except (ValueError, TypeError)
CaughtInLoop == {"ValueError", "TypeError"}

\* int(beneficiary.get("amount", 0)) in millions (every amount of the
\* vocabulary is a multiple of 1000000)
AmountMillions(a) ==
    CASE a = "1000000"     -> 1
      [] a = "10000000000" -> 10000
      [] a = "-1000000"    -> 0 - 1
      [] OTHER             -> 0

\* amount / 1_000_000 in ten-thousandths of a token
UsdcShare(a) == AmountMillions(a) * 10000

\* amount / 10_000_000_000 in ten-thousandths of a token
DotShare(a) == AmountMillions(a)

\* the value _calculate_reward returns: None, or the text
\* "<whole>.<frac, two digits> <currency>"
Reward(none, whole, frac, currency) ==
    [none |-> none, whole |-> whole, frac |-> frac, currency |-> currency]

None == Reward(TRUE, 0, 0, "")

\* f"{total_amount:,.2f} {currency}" for a positive total given in
\* ten-thousandths: rounded to hundredths
FormatReward(total, currency) ==
    LET cents == (total + 50) \div 100
    IN  Reward(FALSE, cents \div 100, cents % 100, currency)

\* the for loop of lines 54-66 from beneficiary i on: total_amount and
\* currency, and the exception that left the loop ("" when it ran to its end)
RECURSIVE RewardLoop(_, _, _, _)
RewardLoop(beneficiaries, i, total_amount, currency) ==
    IF i > Len(beneficiaries)
    THEN [total_amount |-> total_amount, currency |-> currency, exc |-> ""]
    ELSE LET b == beneficiaries[i]
         IN  IF AmountRaises(b.amount)
             THEN IF AmountError(b.amount) \in CaughtInLoop
                  THEN RewardLoop(beneficiaries, i + 1, total_amount, currency)
                  ELSE [total_amount |-> total_amount, currency |-> currency,
                        exc |-> AmountError(b.amount)]
             ELSE IF b.assetId = "1337"
             THEN RewardLoop(beneficiaries, i + 1, total_amount + UsdcShare(b.amount), "USDC")
             ELSE RewardLoop(beneficiaries, i + 1, total_amount + DotShare(b.amount), "DOT")

_calculate_reward(beneficiaries) ==
    IF beneficiaries = <<>> THEN Returned(None)
    ELSE LET end == RewardLoop(beneficiaries, 1, 0, "tokens")
         IN  IF end.exc # "" THEN Raised(end.exc)
             ELSE IF end.total_amount > 0
             THEN Returned(FormatReward(end.total_amount, end.currency))
             ELSE Returned(None)

\* _process_dynamic_route: proposal_data_list is bound only under "if ids:"
_process_dynamic_route(routing_info, failing) ==
    LET ids == routing_info.ID
    IN  IF ids # <<>>
        THEN Returned([RouteResult(ids, <<>>,
                 fetch_multiple_proposals(ids, routing_info.proposal_type, failing), "", {}, 0)
                 EXCEPT !.batches = <<[proposal_type |-> routing_info.proposal_type, ids |-> ids]>>,
                        !.fetch_client = "self.api_client"])
        ELSE Raised("UnboundLocalError")

\* post_indexes: index -> proposalType, keys in first-insertion order,
\* a later hit with the same index replacing the type
RECURSIVE PostIndexes(_)
PostIndexes(hits) ==
    IF hits = <<>> THEN <<>>
    ELSE LET rest == PostIndexes(SubSeq(hits, 1, Len(hits) - 1))
             h == hits[Len(hits)]
         IN  IF \E i \in 1..Len(rest) : rest[i].index = h.index
             THEN [i \in 1..Len(rest) |-> IF rest[i].index = h.index THEN h ELSE rest[i]]
             ELSE Append(rest, h)

\* by_type with one batch for every id
ByType_BatchPerId(pairs) ==
    [i \in 1..Len(pairs) |-> [proposal_type |-> pairs[i].proposalType, ids |-> <<pairs[i].index>>]]

\* by_type: proposal type -> ids, types in first-insertion order
RECURSIVE ByType(_)
ByType(pairs) ==
    IF pairs = <<>> THEN <<>>
    ELSE LET rest == ByType(SubSeq(pairs, 1, Len(pairs) - 1))
             h == pairs[Len(pairs)]
         IN  IF \E i \in 1..Len(rest) : rest[i].proposal_type = h.proposalType
             THEN [i \in 1..Len(rest) |->
                     IF rest[i].proposal_type = h.proposalType
                     THEN [rest[i] EXCEPT !.ids = Append(@, h.index)]
                     ELSE rest[i]]
             ELSE Append(rest, [proposal_type |-> h.proposalType, ids |-> <<h.index>>])

\* asyncio.gather over one fetch_multiple_proposals per type, results extended in order
FetchByType(by_type, failing) ==
    Flatten([i \in 1..Len(by_type) |->
               fetch_multiple_proposals(by_type[i].ids, by_type[i].proposal_type, failing)])

\* _process_algolia_route: queries the search index itself (found) and
\* fetches every hit that has an index
_process_algolia_route(found, failing) ==
    LET post_indexes == PostIndexes(found)
        known == SelectSeqBy(post_indexes, { h \in Range(post_indexes) : h.index # "Unknown" })
    IN  FetchByType(ByType(known), failing)

\* by_type of _process_algolia_route: the batches it fetches
AlgoliaBatches(found) ==
    LET post_indexes == PostIndexes(found)
    IN  ByType(SelectSeqBy(post_indexes, { h \in Range(post_indexes) : h.index # "Unknown" }))

\* An analysis call: the function, the records passed, and whether the
\* function accepts the call (a keyword it does not declare is a TypeError)
Call(fn, args, accepted) == [fn |-> fn, args |-> args, accepted |-> accepted]

\* _process_algolia_result_with_gemini and
\* _process_algolia_result_with_accountability_check: both are given the
\* unfiltered proposal_data_list, write every record into the prompt and call
\* self.analyzer.analyze_single_proposal / compare_proposals with
\* custom_prompt=, which GeminiAnalyzer does not declare; the TypeError is
\* caught by the except Exception of lines 169 and 266
AlgoliaAnalysis(kind, proposal_data_list) ==
    LET step == Call(IF kind = "proposals"
                     THEN "_process_algolia_result_with_gemini"
                     ELSE "_process_algolia_result_with_accountability_check",
                     proposal_data_list, TRUE)
    IN  IF proposal_data_list = <<>>
        THEN [analysis |-> "no_proposals_retrieved", calls |-> { step }]
        ELSE [analysis |-> "analysis_encountered_an_error",
              calls |-> { step,
                          Call(IF Len(proposal_data_list) = 1
                               THEN "analyze_single_proposal" ELSE "compare_proposals",
                               proposal_data_list, FALSE) }]

\* _parse_links: (id, type) of every link that ends in /referenda/<digits>
\* or /post/<digits>
_parse_links(links) ==
    SelectSeqBy([i \in 1..Len(links) |->
                    CASE links[i] = URL1 -> Hit("1679", "ReferendumV2")
                      [] links[i] = URL2 -> Hit("999", "Discussion")
                      [] OTHER           -> Hit("", "")],
                { Hit("1679", "ReferendumV2"), Hit("999", "Discussion") })

\* the else branch of process_prompt_with_general_chat, lines 581-618:
\* merged is the outcome of process_prompt
GeneralChatFallback(merged, failing) ==
    IF merged.raised THEN merged
    ELSE LET ids == merged.value.ids
             links == merged.value.links
             seeded == [i \in 1..Len(ids) |-> Hit(ids[i], "ReferendumV2")]
             proposals_to_fetch == PostIndexes(seeded \o _parse_links(links))
         IN  Returned([RouteResult(ids, links,
                 IF ids # <<>> THEN FetchByType(ByType(proposals_to_fetch), failing) ELSE <<>>,
                 "", {}, 0)
                 EXCEPT !.mapping = IF ids # <<>> THEN proposals_to_fetch ELSE <<>>,
                        !.batches = IF ids # <<>> THEN ByType(proposals_to_fetch) ELSE <<>>,
                        !.fetch_client = IF ids # <<>> THEN "self.api_client" ELSE "none",
                        !.scoped_client = IF ids # <<>> THEN "closed" ELSE "none",
                        !.extraction = merged.value])

Pipelines == {"proposals", "accountability", "general_chat"}

\* step 2 of the three pipelines: the branch on data_source.  found is what
\* the coordinator's own search_posts call returns, merged the outcome of
\* process_prompt if the branch calls it.
ProcessRoute(kind, data_source, routing_info, found, failing, merged) ==
    IF data_source = "dynamic" THEN _process_dynamic_route(routing_info, failing)
    ELSE IF data_source = "algolia"
    THEN LET proposal_data_list == _process_algolia_route(found, failing)
             ids == [i \in 1..Len(proposal_data_list) |-> proposal_data_list[i].id]
             a == IF kind = "general_chat" THEN [analysis |-> "", calls |-> {}]
                  ELSE AlgoliaAnalysis(kind, proposal_data_list)
         IN  Returned([RouteResult(ids, <<>>, proposal_data_list, a.analysis, a.calls, 1)
                 EXCEPT !.mapping = PostIndexes(found),
                        !.batches = AlgoliaBatches(found),
                        !.fetch_client = IF AlgoliaBatches(found) # <<>>
                                         THEN "self.api_client" ELSE "none"])
    ELSE IF kind = "general_chat" THEN GeneralChatFallback(merged, failing)
    ELSE Raised("AttributeError")   \* self.log_warning: BaseAgent has no log_warning

\* steps 3-6 of the three pipelines: the response built from a route's result
Respond(kind, data_source, route) ==
    LET valid_proposals == ValidProposals(route.proposal_data_list)
    IN  IF valid_proposals = <<>>
        THEN [ids |-> route.ids, links |-> route.links, proposals |-> <<>>,
              analysis |-> "", calls |-> route.calls]
        ELSE IF data_source = "algolia" /\ kind # "general_chat"
        THEN [ids |-> route.ids, links |-> route.links, proposals |-> valid_proposals,
              analysis |-> route.analysis, calls |-> route.calls]
        ELSE [ids |-> route.ids, links |-> route.links, proposals |-> valid_proposals,
              analysis |-> "analysis",
              calls |-> route.calls \cup
                  { Call(CASE kind = "proposals" -> "analyze_proposals"
                           [] kind = "accountability" -> "analyze_proposals_accountability"
                           [] OTHER -> "analyze_proposals_general_chat",
                         valid_proposals, TRUE) }]


\* ------------------------------------------------------ analysis dispatchers
\* A record as the analyzers read it: error is ProposalData.error being
\* non-empty, content_null the payload's "content" being the JSON null
\* (fetch_proposal stores data.get("content", "") as it comes).
AnalysedProposal(id, error, content_null) ==
    [id |-> id, error |-> error, content_null |-> content_null]

AnalyzerKinds == {"summary", "accountability", "general_chat"}

\* How generate_content can end on an instance that has a client:
\*   text         response.text is the answer
\*   padded_text  response.text is the answer with white space around it
\*   no_text      response.text is None
\*   raises       the call raises
ModelOutcomes == {"text", "padded_text", "no_text", "raises"}

\* response.text of an outcome that has one
ModelText(outcome) == IF outcome = "padded_text" THEN " answer\n" ELSE "answer"

\* str.strip()
Strip(t) == IF t = " answer\n" THEN "answer" ELSE t

\* _safe_gemini_call of the analyzers: response.text.strip(), or the
\* exception of the call or of None.strip()
SafeGeminiCall(outcome) ==
    CASE outcome = "raises"  -> Raised("Exception")
      [] outcome = "no_text" -> Raised("AttributeError")
      [] OTHER               -> Returned(<<Strip(ModelText(outcome))>>)

\* What an analysis method hands back: the text as a sequence of pieces, the
\* exception it raised ("" when it returned), the single-item and multi-item
\* methods that ran, and the generate_content calls issued.
Analysis(text, paths, model_calls) ==
    [text |-> text, exc |-> "", paths |-> paths, model_calls |-> model_calls]

\* some record of l has no content
RECURSIVE AnyContentNull(_)
AnyContentNull(l) ==
    IF l = <<>> THEN FALSE ELSE Head(l).content_null \/ AnyContentNull(Tail(l))

\* the nine-line summary GeminiAnalyzer writes from the record itself
RECURSIVE individual_summaries(_)
individual_summaries(l) ==
    IF l = <<>> THEN <<>>
    ELSE <<"Proposal", Head(l).id, "Title: .. Description: ..">> \o individual_summaries(Tail(l))

\* GeminiAnalyzer.analyze_single_proposal: written locally, no model call;
\* content.lower() on a null content raises inside the try
analyze_single_proposal(proposal, client, outcome) ==
    IF proposal.error
    THEN Analysis(<<"Error: Unable to analyze proposal", proposal.id>>, <<"analyze_single_proposal">>, 0)
    ELSE IF proposal.content_null
    THEN Analysis(<<"Error analyzing proposal", proposal.id, "AttributeError">>,
                  <<"analyze_single_proposal">>, 0)
    ELSE Analysis(individual_summaries(<<proposal>>), <<"analyze_single_proposal">>, 0)

\* GeminiAnalyzer._generate_fallback_comparison
_generate_fallback_comparison(proposals) ==
    <<"Comparison: Cost: Proposal", proposals[1].id, "requests .. while Proposal", proposals[2].id, "requests ..">>

\* GeminiAnalyzer.compare_proposals: the local summaries, then the comparison
\* section, from the model if there is a client and the call works
compare_proposals(proposals, client, outcome) ==
    LET valid_proposals == ValidProposals(proposals)
        me == <<"compare_proposals">>
    IN  IF Len(valid_proposals) < 2
        THEN Analysis(<<"Error: Not enough valid proposals to compare">>, me, 0)
        ELSE IF AnyContentNull(valid_proposals)
        THEN Analysis(<<"Error comparing proposals", "AttributeError">>, me, 0)
        ELSE LET response == SafeGeminiCall(outcome)
                 comparison_section ==
                     IF client /\ ~response.raised THEN response.value
                     ELSE _generate_fallback_comparison(valid_proposals)
             IN  Analysis(individual_summaries(valid_proposals) \o comparison_section,
                          me, IF client THEN 1 ELSE 0)

\* GeminiAnalyzer.analyze_proposals
analyze_proposals(proposals, client, outcome) ==
    LET valid_proposals == ValidProposals(proposals)
    IN  IF proposals = <<>> THEN Analysis(<<"No proposals to analyze">>, <<>>, 0)
        ELSE IF Len(valid_proposals) = 0
        THEN Analysis(<<"No valid proposals to analyze">>, <<>>, 0)
        ELSE IF Len(valid_proposals) = 1
        THEN analyze_single_proposal(valid_proposals[1], client, outcome)
        ELSE compare_proposals(valid_proposals, client, outcome)

\* AccountabilityAnalyzer.analyze_single_proposal_accountability
analyze_single_proposal_accountability(proposal, client, outcome) ==
    LET me == <<"analyze_single_proposal_accountability">>
    IN  IF proposal.error
        THEN Analysis(<<"Error: Unable to analyze proposal", proposal.id, "due to a fetch error.">>, me, 0)
        ELSE IF ~client
        THEN Analysis(<<"Proposal", proposal.id, "(AI analysis disabled: Gemini client not available)">>, me, 0)
        ELSE LET response == SafeGeminiCall(outcome)
             IN  IF response.raised
                 THEN Analysis(<<"Error generating accountability analysis for proposal", proposal.id>>, me, 1)
                 ELSE Analysis(response.value, me, 1)

\* AccountabilityAnalyzer.compare_proposals_accountability: p.content[:2000]
\* on a null content raises inside the try, before the call
compare_proposals_accountability(proposals, client, outcome) ==
    LET valid_proposals == ValidProposals(proposals)
        me == <<"compare_proposals_accountability">>
    IN  IF Len(valid_proposals) < 2
        THEN IF valid_proposals # <<>>
             THEN LET single == analyze_single_proposal_accountability(valid_proposals[1], client, outcome)
                  IN  [single EXCEPT !.paths = me \o single.paths]
             ELSE Analysis(<<"No valid proposals to analyze for accountability.">>, me, 0)
        ELSE IF ~client
        THEN Analysis(<<"Could not generate accountability comparison. AI client not available.">>, me, 0)
        ELSE IF AnyContentNull(valid_proposals)
        THEN Analysis(<<"Error generating accountability comparison.">>, me, 0)
        ELSE LET response == SafeGeminiCall(outcome)
             IN  IF response.raised
                 THEN Analysis(<<"Error generating accountability comparison.">>, me, 1)
                 ELSE Analysis(response.value, me, 1)

\* analyze_proposals_accountability that hands a single valid record to the
\* comparison method
analyze_proposals_accountability_ViaCompare(proposals, client, outcome) ==
    LET valid_proposals == ValidProposals(proposals)
    IN  IF proposals = <<>> THEN Analysis(<<"No proposals to analyze for accountability.">>, <<>>, 0)
        ELSE IF Len(valid_proposals) = 0
        THEN Analysis(<<"No valid proposals could be analyzed for accountability.">>, <<>>, 0)
        ELSE compare_proposals_accountability(valid_proposals, client, outcome)

\* AccountabilityAnalyzer.analyze_proposals_accountability
analyze_proposals_accountability(proposals, client, outcome) ==
    LET valid_proposals == ValidProposals(proposals)
    IN  IF proposals = <<>> THEN Analysis(<<"No proposals to analyze for accountability.">>, <<>>, 0)
        ELSE IF Len(valid_proposals) = 0
        THEN Analysis(<<"No valid proposals could be analyzed for accountability.">>, <<>>, 0)
        ELSE IF Len(valid_proposals) = 1
        THEN analyze_single_proposal_accountability(valid_proposals[1], client, outcome)
        ELSE compare_proposals_accountability(valid_proposals, client, outcome)

\* GeneralChatAnalyzer.answer_question_single_proposal
answer_question_single_proposal(proposal, client, outcome) ==
    LET me == <<"answer_question_single_proposal">>
    IN  IF proposal.error
        THEN Analysis(<<"Error: Unable to answer question about proposal", proposal.id, "due to a fetch error.">>, me, 0)
        ELSE IF ~client
        THEN Analysis(<<"Unable to answer question about proposal", proposal.id, "AI client not available.">>, me, 0)
        ELSE LET response == SafeGeminiCall(outcome)
             IN  IF response.raised
                 THEN Analysis(<<"Error generating answer for proposal", proposal.id>>, me, 1)
                 ELSE Analysis(response.value, me, 1)

\* answer_question_multiple_proposals without its except clause
answer_question_multiple_proposals_NoExcept(proposals, client, outcome) ==
    LET valid_proposals == ValidProposals(proposals)
        me == <<"answer_question_multiple_proposals">>
    IN  IF Len(valid_proposals) = 0
        THEN Analysis(<<"No valid proposals available to answer your question.">>, me, 0)
        ELSE IF ~client
        THEN Analysis(<<"Unable to answer question about proposals. AI client not available.">>, me, 0)
        ELSE IF AnyContentNull(valid_proposals)
        THEN [Analysis(<<>>, me, 0) EXCEPT !.exc = "TypeError"]
        ELSE LET response == SafeGeminiCall(outcome)
             IN  IF response.raised
                 THEN [Analysis(<<>>, me, 1) EXCEPT !.exc = response.exc]
                 ELSE Analysis(response.value, me, 1)

\* GeneralChatAnalyzer.answer_question_multiple_proposals
answer_question_multiple_proposals(proposals, client, outcome) ==
    LET valid_proposals == ValidProposals(proposals)
        me == <<"answer_question_multiple_proposals">>
    IN  IF Len(valid_proposals) = 0
        THEN Analysis(<<"No valid proposals available to answer your question.">>, me, 0)
        ELSE IF ~client
        THEN Analysis(<<"Unable to answer question about proposals. AI client not available.">>, me, 0)
        ELSE IF AnyContentNull(valid_proposals)
        THEN Analysis(<<"Error generating answer for the proposals.">>, me, 0)
        ELSE LET response == SafeGeminiCall(outcome)
             IN  IF response.raised
                 THEN Analysis(<<"Error generating answer for the proposals.">>, me, 1)
                 ELSE Analysis(response.value, me, 1)

\* GeneralChatAnalyzer.analyze_proposals_general_chat
analyze_proposals_general_chat(proposals, client, outcome) ==
    LET valid_proposals == ValidProposals(proposals)
    IN  IF proposals = <<>> THEN Analysis(<<"No proposals available to answer your question.">>, <<>>, 0)
        ELSE IF Len(valid_proposals) = 0
        THEN Analysis(<<"No valid proposals could be found to answer your question.">>, <<>>, 0)
        ELSE IF Len(valid_proposals) = 1
        THEN answer_question_single_proposal(valid_proposals[1], client, outcome)
        ELSE answer_question_multiple_proposals(valid_proposals, client, outcome)

\* the dispatcher of each analyzer
Dispatch(kind, proposals, client, outcome) ==
    CASE kind = "summary"        -> analyze_proposals(proposals, client, outcome)
      [] kind = "accountability" -> analyze_proposals_accountability(proposals, client, outcome)
      [] OTHER                   -> analyze_proposals_general_chat(proposals, client, outcome)

\* ------------------------------------------------------- RateLimiterService
\* The user_rate_limits row of one user: absent, or its request_count and
\* reset_time (in ticks of the clock).
NoRow == [present |-> FALSE, request_count |-> 0, reset_time |-> 0]

UserRateLimit(request_count, reset_time) ==
    [present |-> TRUE, request_count |-> request_count, reset_time |-> reset_time]

\* What check_rate_limit does once its SELECT has returned the row seen, at
\* time now, when the committed row is stored: the row after its commit, the
\* (is_allowed, remaining) it returns, and whether the commit raised (the
\* INSERT of a user_email that exists by then breaks the unique constraint;
\* the except clause then allows the request).  The UPDATE writes the values
\* computed from the row that was read.
check_rate_limit_NoLimitTest(seen, stored, now) ==
    IF ~seen.present
    THEN IF stored.present
         THEN [row |-> stored, is_allowed |-> TRUE, remaining |-> requests_per_window - 1, raised |-> TRUE]
         ELSE [row |-> UserRateLimit(1, now + window_size_seconds),
               is_allowed |-> TRUE, remaining |-> requests_per_window - 1, raised |-> FALSE]
    ELSE IF now >= seen.reset_time
    THEN [row |-> UserRateLimit(1, now + window_size_seconds),
          is_allowed |-> TRUE, remaining |-> requests_per_window - 1, raised |-> FALSE]
    ELSE [row |-> UserRateLimit(seen.request_count + 1, stored.reset_time),
          is_allowed |-> TRUE,
          remaining |-> requests_per_window - (seen.request_count + 1), raised |-> FALSE]

check_rate_limit(seen, stored, now) ==
    IF ~seen.present
    THEN IF stored.present
         THEN [row |-> stored, is_allowed |-> TRUE, remaining |-> requests_per_window - 1, raised |-> TRUE]
         ELSE [row |-> UserRateLimit(1, now + window_size_seconds),
               is_allowed |-> TRUE, remaining |-> requests_per_window - 1, raised |-> FALSE]
    ELSE IF now >= seen.reset_time
    THEN [row |-> UserRateLimit(1, now + window_size_seconds),
          is_allowed |-> TRUE, remaining |-> requests_per_window - 1, raised |-> FALSE]
    ELSE IF seen.request_count >= requests_per_window
    THEN [row |-> stored, is_allowed |-> FALSE, remaining |-> 0, raised |-> FALSE]
    ELSE [row |-> UserRateLimit(seen.request_count + 1, stored.reset_time),
          is_allowed |-> TRUE,
          remaining |-> requests_per_window - (seen.request_count + 1), raised |-> FALSE]

\* the database sessions that can be open together
Sessions == 1..MaxSessions

\* a session with no call in flight
NoCall == [pc |-> "idle", now |-> 0, seen |-> NoRow]

\* A call that returned: when it was made, the row it read, what it
\* returned, the committed row before and after its commit, and whether a
\* database call raised.
Returned_check(call, before, result, failed) ==
    [now |-> call.now, seen |-> call.seen,
     is_allowed |-> result.is_allowed, remaining |-> result.remaining,
     before |-> before, after |-> result.row, raised |-> failed]

\* ------------------------------------------------------------------ state
VARIABLES
    use_gemini,     \* LLMExtractorAgent.use_gemini, set once by __init__
    client_builds,  \* genai.Client constructions made by the extractor's process calls
    model_calls,    \* generate_content calls issued by the extractor
    router_client,  \* RoutingService.client is not None
    open_clients,   \* the PolkadotAPIClient instances whose HTTP client is open
    pc,             \* where LLMExtractorAgent.process stands
    call_text,      \* input_data of the process call in progress
    call_resp,      \* what the model call came back with, once it has
    last,           \* the operation that completed last and its outcome
    clock,          \* datetime.now(timezone.utc), in ticks
    user_limit,     \* the committed user_rate_limits row of the user
    sessions,       \* the check_rate_limit calls in flight, one database session each
    history,        \* the check_rate_limit calls that returned, in order of return
    started,        \* check_rate_limit calls begun so far
    overlapped,     \* two check_rate_limit calls have been in flight together
    db_failed       \* a database call of check_rate_limit has raised

\* the state of the rate limiter and the record of its calls
rate_vars == <<clock, user_limit, sessions, history, started, overlapped, db_failed>>

vars == <<use_gemini, client_builds, model_calls, router_client, open_clients, pc, call_text, call_resp, last, rate_vars>>

NoResp == Resp("none", <<>>, <<>>)
NoDecision == Decision("", <<>>, "", <<>>)

\* The record of a completed operation.  outcome is "returned" or "raised";
\* via names the path taken; calls are the analysis calls the operation made.
Done(op, prompt, outcome, via) ==
    [op |-> op, prompt |-> prompt, outcome |-> outcome, via |-> via,
     resp |-> NoResp, ids |-> <<>>, links |-> <<>>, decision |-> NoDecision,
     proposals |-> <<>>, analysis |-> "", calls |-> {}, fetched |-> <<>>,
     search_results |-> <<>>, queries |-> 0,
     proposal_type |-> "", outcomes |-> <<>>, order |-> <<>>,
     mapping |-> <<>>, batches |-> <<>>, fetch_client |-> "none", scoped_client |-> "none",
     extraction |-> [ids |-> <<>>, links |-> <<>>],
     beneficiaries |-> <<>>, reward |-> None,
     analyzer |-> "", client |-> FALSE, model_outcome |-> "",
     text |-> <<>>, paths |-> <<>>, analysis_calls |-> 0]

\* an operation that has started and not completed
Running(op, prompt) == Done(op, prompt, "running", "")

\* no operation in progress or completed
Idle == Done("none", <<>>, "none", "")

Init ==
    /\ use_gemini \in BOOLEAN
    /\ router_client \in BOOLEAN
    /\ open_clients = {"self.api_client"}
    /\ client_builds = 0
    /\ model_calls = 0
    /\ pc = "idle"
    /\ call_text = <<>>
    /\ call_resp = NoResp
    /\ last = Idle
    /\ clock = 0
    /\ user_limit = NoRow
    /\ sessions = [s \in Sessions |-> NoCall]
    /\ history = <<>>
    /\ started = 0
    /\ overlapped = FALSE
    /\ db_failed = FALSE

\* ------------------------------------------- LLMExtractorAgent.process steps
\* ProcessDegraded that tries to build the client again before it falls back
ProcessDegraded_Reinit(input_data) ==
    /\ pc = "idle"
    /\ ~use_gemini
    /\ client_builds < MaxCalls
    /\ client_builds' = client_builds + 1
    /\ use_gemini' \in BOOLEAN
    /\ \E l \in Orderings(_fallback_extraction(input_data)) :
         last' = [Done("process", input_data, "returned", "fallback") EXCEPT !.ids = l]
    /\ pc' = "done"
    /\ UNCHANGED <<model_calls, router_client, open_clients, rate_vars, call_text, call_resp>>

\* process on a DEGRADED instance (use_gemini is False): lines 29-31
ProcessDegraded(input_data) ==
    /\ pc = "idle"
    /\ ~use_gemini
    /\ \E l \in Orderings(_fallback_extraction(input_data)) :
         last' = [Done("process", input_data, "returned", "fallback") EXCEPT !.ids = l]
    /\ pc' = "done"
    /\ UNCHANGED <<use_gemini, client_builds, model_calls, router_client, open_clients, rate_vars, call_text, call_resp>>

\* process on a READY instance with GEMINI_API_KEY unset: _safe_gemini_call
\* raises before it builds a client and returns "Error: ...", lines 106-108
ProcessNoKey(input_data) ==
    /\ pc = "idle"
    /\ use_gemini
    /\ \E l \in ProcessWithResponse(input_data, Resp("call_error", <<>>, <<>>)) :
         last' = [Done("process", input_data, "returned", "fallback")
                    EXCEPT !.ids = l, !.resp = Resp("call_error", <<>>, <<>>)]
    /\ pc' = "done"
    /\ UNCHANGED <<use_gemini, client_builds, model_calls, router_client, open_clients, rate_vars, call_text, call_resp>>

\* process on a READY instance: builds a client and issues generate_content,
\* a synchronous call with no timeout (lines 110-114)
ProcessCallModel(input_data) ==
    /\ pc = "idle"
    /\ use_gemini
    /\ model_calls < MaxCalls
    /\ pc' = "awaiting_model"
    /\ call_text' = input_data
    /\ client_builds' = client_builds + 1
    /\ model_calls' = model_calls + 1
    /\ last' = Running("process", input_data)
    /\ UNCHANGED <<use_gemini, router_client, open_clients, rate_vars, call_resp>>

\* the external model answers, or the call fails (environment)
ModelResponds(resp) ==
    /\ pc = "awaiting_model"
    /\ pc' = "got_response"
    /\ call_resp' = resp
    /\ UNCHANGED <<use_gemini, client_builds, model_calls, router_client, open_clients, rate_vars, call_text, last>>

\* the rest of process after _safe_gemini_call returned: lines 58-92
ProcessFinish ==
    /\ pc = "got_response"
    /\ \E l \in ProcessWithResponse(call_text, call_resp) :
         last' = [Done("process", call_text, "returned",
                       IF GeminiPathRaises(call_resp) THEN "fallback" ELSE "model")
                    EXCEPT !.ids = l, !.resp = call_resp]
    /\ pc' = "done"
    /\ call_text' = <<>>
    /\ call_resp' = NoResp
    /\ UNCHANGED <<use_gemini, client_builds, model_calls, router_client, open_clients, rate_vars>>

\* the caller takes the result of the completed call; the agents stay as they are
CallerResumes ==
    /\ pc = "done"
    /\ pc' = "idle"
    /\ last' = Idle
    /\ UNCHANGED <<use_gemini, client_builds, model_calls, router_client, open_clients, rate_vars, call_text, call_resp>>

\* ----------------------------------------------------------- RoutingService
RouteRequest(prompt, rresp) ==
    /\ pc = "idle"
    /\ LET r == route_request(prompt, router_client, rresp)
       IN  last' = [Done("route_request", prompt,
                         IF r.raised THEN "raised" ELSE "returned",
                         IF r.exc = "fallback" THEN "fallback" ELSE "model")
                      EXCEPT !.decision = IF r.raised THEN NoDecision ELSE r.value,
                             !.resp = IF router_client THEN Resp(rresp.kind, <<>>, <<>>) ELSE NoResp]
    /\ pc' = "done"
    /\ UNCHANGED <<use_gemini, client_builds, model_calls, router_client, open_clients, rate_vars, call_text, call_resp>>

RouterNext ==
    /\ pc = "idle"
    /\ \E t \in Prompts, r \in RouterResponses : RouteRequest(t, r)

\* --------------------------------------------------------- process_prompt
\* An extractor task ends by returning or, for fault = its name, by raising
Faults == {"none", "llm", "regex"}

\* the LLM extractor task inside a coordinator call: the outcomes it can
\* have on this instance when the model call comes back with resp (key:
\* GEMINI_API_KEY is set)
LlmTask(prompt, fault, key, resp) ==
    IF fault = "llm" THEN { Raised("Exception") }
    ELSE IF ~use_gemini THEN { Returned(l) : l \in Orderings(_fallback_extraction(prompt)) }
    ELSE IF ~key THEN { Returned(l) : l \in ProcessWithResponse(prompt, Resp("call_error", <<>>, <<>>)) }
    ELSE { Returned(l) : l \in ProcessWithResponse(prompt, resp) }

RegexTask(prompt, fault) ==
    IF fault = "regex" THEN Raised("Exception") ELSE Returned(RegexLinks(prompt))

\* the extractor's counters after a process call made inside a coordinator call
CountModelCall(key) ==
    IF use_gemini /\ key
    THEN /\ model_calls < MaxCalls
         /\ model_calls' = model_calls + 1
         /\ client_builds' = client_builds + 1
    ELSE UNCHANGED <<model_calls, client_builds>>

ProcessPrompt(prompt, fault, key, resp) ==
    /\ pc = "idle"
    /\ CountModelCall(key)
    /\ \E llm \in LlmTask(prompt, fault, key, resp) :
         LET r == process_prompt(llm, RegexTask(prompt, fault))
         IN  last' = [Done("process_prompt", prompt,
                           IF r.raised THEN "raised" ELSE "returned", fault)
                        EXCEPT !.ids = IF r.raised THEN <<>> ELSE r.value.ids,
                               !.links = IF r.raised THEN <<>> ELSE r.value.links,
                               !.fetched = IF llm.raised THEN <<>> ELSE llm.value]
    /\ pc' = "done"
    /\ UNCHANGED <<use_gemini, router_client, open_clients, rate_vars, call_text, call_resp>>

MergerNext ==
    /\ pc = "idle"
    /\ \E t \in Prompts, f \in Faults, k \in BOOLEAN, r \in ExtractorResponses :
        ProcessPrompt(t, f, k, r)

\* ------------------------------------------------------ the three pipelines
\* step 1: routing_info = await self.routing_service.process_routed_request(prompt)
StartPipeline(kind, prompt, rresp, found) ==
    /\ pc = "idle"
    /\ LET r == process_routed_request(prompt, router_client, rresp, found)
       IN  /\ last' = IF r.raised
                      THEN Done(kind, prompt, "raised", r.exc)
                      ELSE [Running(kind, prompt)
                              EXCEPT !.decision = r.value.decision,
                                     !.search_results = r.value.search_results,
                                     !.queries = r.value.queries,
                                     !.via = IF r.exc = "fallback" THEN "fallback" ELSE "model"]
           /\ pc' = IF r.raised THEN "done" ELSE "routed"
    /\ UNCHANGED <<use_gemini, client_builds, model_calls, router_client, open_clients, rate_vars, call_text, call_resp>>

\* the state of a pipeline call that has completed with route, the outcome of step 2
Completed(kind, data_source, route) ==
    IF route.raised
    THEN [last EXCEPT !.outcome = "raised", !.via = route.exc]
    ELSE LET out == Respond(kind, data_source, route.value)
         IN  [last EXCEPT !.outcome = "returned",
                          !.ids = out.ids,
                          !.links = out.links,
                          !.proposals = out.proposals,
                          !.analysis = out.analysis,
                          !.calls = out.calls,
                          !.fetched = route.value.proposal_data_list,
                          !.mapping = route.value.mapping,
                          !.batches = route.value.batches,
                          !.fetch_client = route.value.fetch_client,
                          !.scoped_client = route.value.scoped_client,
                          !.extraction = route.value.extraction,
                          !.queries = @ + route.value.queries]

\* steps 2-6 on the dynamic route; failing: the ids whose fetch fails
FinishDynamic(failing) ==
    /\ pc = "routed"
    /\ last.decision.data_source = "dynamic"
    /\ last' = Completed(last.op, "dynamic",
                         ProcessRoute(last.op, "dynamic", last.decision, <<>>, failing,
                                      Raised("")))
    /\ pc' = "done"
    /\ UNCHANGED <<use_gemini, client_builds, model_calls, router_client, open_clients, rate_vars, call_text, call_resp>>

\* steps 2-6 on the algolia route; found: what the coordinator's search returns
FinishAlgolia(found, failing) ==
    /\ pc = "routed"
    /\ last.decision.data_source = "algolia"
    /\ last' = Completed(last.op, "algolia",
                         ProcessRoute(last.op, "algolia", last.decision, found, failing,
                                      Raised("")))
    /\ pc' = "done"
    /\ UNCHANGED <<use_gemini, client_builds, model_calls, router_client, open_clients, rate_vars, call_text, call_resp>>

\* steps 2-6 when data_source is neither "dynamic" nor "algolia"
FinishUnknown(failing, fault, key, resp) ==
    /\ pc = "routed"
    /\ last.decision.data_source \notin {"dynamic", "algolia"}
    /\ IF last.op = "general_chat"
       THEN /\ CountModelCall(key)
            /\ \E llm \in LlmTask(last.prompt, fault, key, resp) :
                 last' = Completed(last.op, last.decision.data_source,
                             ProcessRoute(last.op, last.decision.data_source, last.decision,
                                          <<>>, failing,
                                          process_prompt(llm, RegexTask(last.prompt, fault))))
       ELSE /\ UNCHANGED <<model_calls, client_builds>>
            /\ last' = Completed(last.op, last.decision.data_source,
                           ProcessRoute(last.op, last.decision.data_source, last.decision,
                                        <<>>, failing, Raised("")))
    /\ pc' = "done"
    /\ UNCHANGED <<use_gemini, router_client, open_clients, rate_vars, call_text, call_resp>>

\* --------------------------------------------------- PolkadotAPIClient call
ProposalTypes == {"ReferendumV2", "Discussion"}

\* the ids of a direct batch fetch
FetchIds == {"1679", "999"}

\* the lists of at most n ids
IdLists(n) == UNION { [1..k -> FetchIds] : k \in 0..n }

\* one call of fetch_multiple_proposals
FetchMultiple(proposal_ids, proposal_type, outcomes, order) ==
    /\ pc = "idle"
    /\ LET r == FetchMultipleProposals(proposal_ids, proposal_type, outcomes, order)
       IN  last' = [Done("fetch_multiple_proposals", <<>>,
                         IF r.raised THEN "raised" ELSE "returned", "")
                      EXCEPT !.ids = proposal_ids,
                             !.proposal_type = proposal_type,
                             !.outcomes = outcomes,
                             !.order = order,
                             !.fetched = IF r.raised THEN <<>> ELSE r.value]
    /\ pc' = "done"
    /\ UNCHANGED <<use_gemini, client_builds, model_calls, router_client, open_clients, rate_vars, call_text, call_resp>>

FetchNext ==
    /\ pc = "idle"
    /\ \E ids \in IdLists(MaxBatch), t \in ProposalTypes :
         \E out \in [1..Len(ids) -> FetchOutcomes], ord \in Orderings(1..Len(ids)) :
            FetchMultiple(ids, t, out, ord)

\* ------------------------------------------------------- reward calculation
Beneficiaries == { Beneficiary(a, c) : a \in Amounts, c \in AssetIds }

\* the beneficiary lists of at most n entries
BeneficiaryLists(n) == UNION { [1..k -> Beneficiaries] : k \in 0..n }

\* one call of _calculate_reward on a fetched proposal
CalculateReward(beneficiaries) ==
    /\ pc = "idle"
    /\ LET result == _calculate_reward(beneficiaries)
       IN  last' = [Done("_calculate_reward", <<>>,
                         IF result.raised THEN "raised" ELSE "returned", result.exc)
                      EXCEPT !.beneficiaries = beneficiaries,
                             !.reward = IF result.raised THEN None ELSE result.value]
    /\ pc' = "done"
    /\ UNCHANGED <<use_gemini, client_builds, model_calls, router_client, open_clients, rate_vars, call_text, call_resp>>

RewardNext ==
    /\ pc = "idle"
    /\ \E bs \in BeneficiaryLists(MaxBeneficiaries) : CalculateReward(bs)

\* the ids a hit list names
HitIds(hits) == { hits[i].index : i \in 1..Len(hits) }

\* the ids a bare-id extraction of the pipeline prompts can give
MergedIds == {"1679", "999", "12"}

PipelineNext ==
    \/ /\ pc = "idle"
       /\ \E k \in Pipelines, t \in PipelinePrompts, r \in RouterResponses, h \in SearchResults :
            StartPipeline(k, t, r, h)
    \/ /\ pc = "routed"
       /\ \E bad \in SUBSET Range(last.decision.ID) : FinishDynamic(bad)
    \/ /\ pc = "routed"
       /\ \E h \in SearchResults : \E bad \in SUBSET HitIds(h) : FinishAlgolia(h, bad)
    \/ /\ pc = "routed"
       /\ last.decision.data_source \notin {"dynamic", "algolia"}
       /\ \E bad \in SUBSET MergedIds, f \in Faults, k \in BOOLEAN, r \in ExtractorResponses :
            FinishUnknown(bad, f, k, r)

ExtractorNext ==
    \/ pc = "idle" /\ \E t \in Prompts : ProcessDegraded(t)
    \/ pc = "idle" /\ \E t \in Prompts : ProcessNoKey(t)
    \/ pc = "idle" /\ \E t \in Prompts : ProcessCallModel(t)
    \/ pc = "awaiting_model" /\ \E r \in ExtractorResponses : ModelResponds(r)
    \/ ProcessFinish
    \/ CallerResumes

\* ------------------------------------------------------ analysis dispatch
\* the ids of the records handed to a dispatcher, by position
RecordIds == <<"1679", "999", "12", "34">>

\* the lists of at most n records a dispatcher can be handed
AnalysedLists(n) ==
    UNION { { [i \in 1..k |-> AnalysedProposal(RecordIds[i], e[i], (~e[i]) /\ c[i])] :
                e \in [1..k -> BOOLEAN], c \in [1..k -> BOOLEAN] } : k \in 0..n }

\* one call of a dispatcher on an analyzer whose client is present or None;
\* outcome is how the model call ends if one is issued
AnalyzeProposals(kind, proposals, client, outcome) ==
    /\ pc = "idle"
    /\ LET r == Dispatch(kind, proposals, client, outcome)
       IN  last' = [Done("analyze", <<>>, IF r.exc = "" THEN "returned" ELSE "raised", r.exc)
                      EXCEPT !.analyzer = kind,
                             !.proposals = proposals,
                             !.client = client,
                             !.model_outcome = outcome,
                             !.text = r.text,
                             !.paths = r.paths,
                             !.analysis_calls = r.model_calls]
    /\ pc' = "done"
    /\ UNCHANGED <<use_gemini, client_builds, model_calls, router_client, open_clients, rate_vars, call_text, call_resp>>

AnalysisNext ==
    /\ pc = "idle"
    /\ \E kind \in AnalyzerKinds, proposals \in AnalysedLists(MaxRecords), client \in BOOLEAN :
         \E outcome \in IF client THEN ModelOutcomes ELSE {"not_called"} :
            AnalyzeProposals(kind, proposals, client, outcome)

Next == ExtractorNext \/ RouterNext \/ MergerNext \/ PipelineNext \/ FetchNext \/ RewardNext \/ AnalysisNext

Spec == Init /\ [][Next]_vars

\* The extractor's own steps always get to run; the external model is under
\* no obligation to answer, and the source has no step that gives up on it.
LiveSpec == Init /\ [][Next]_vars /\ WF_vars(ProcessFinish) /\ WF_vars(CallerResumes)

\* ------------------------------------------------- check_rate_limit steps
\* time passes
Tick ==
    /\ clock < MaxTime
    /\ clock' = clock + 1
    /\ UNCHANGED <<use_gemini, client_builds, model_calls, router_client, open_clients, pc,
                   call_text, call_resp, last, user_limit, sessions, history, started,
                   overlapped, db_failed>>

\* check_rate_limit up to the result of its SELECT (lines 43-52): a session
\* is opened, now is taken and the user's row is read
Select(s) ==
    /\ sessions[s].pc = "idle"
    /\ started < MaxRequests
    /\ started' = started + 1
    /\ sessions' = [sessions EXCEPT ![s] = [pc |-> "selected", now |-> clock, seen |-> user_limit]]
    /\ overlapped' = (overlapped \/ \E o \in Sessions \ {s} : sessions[o].pc = "selected")
    /\ UNCHANGED <<use_gemini, client_builds, model_calls, router_client, open_clients, pc,
                   call_text, call_resp, last, clock, user_limit, history, db_failed>>

\* the rest of check_rate_limit (lines 56-109): the branch on the row that
\* was read, the commit, the return and the close of the session
Commit(s) ==
    /\ sessions[s].pc = "selected"
    /\ LET result == check_rate_limit(sessions[s].seen, user_limit, sessions[s].now)
       IN  /\ user_limit' = result.row
           /\ history' = Append(history, Returned_check(sessions[s], user_limit, result, result.raised))
    /\ sessions' = [sessions EXCEPT ![s] = NoCall]
    /\ UNCHANGED <<use_gemini, client_builds, model_calls, router_client, open_clients, pc,
                   call_text, call_resp, last, clock, started, overlapped, db_failed>>

\* a database call of check_rate_limit raises (the connection is lost, the
\* commit fails): the except clause of lines 101-106 allows the request
DatabaseError(s) ==
    /\ sessions[s].pc = "selected"
    /\ history' = Append(history,
           Returned_check(sessions[s], user_limit,
                          [row |-> user_limit, is_allowed |-> TRUE,
                           remaining |-> requests_per_window - 1], TRUE))
    /\ db_failed' = TRUE
    /\ sessions' = [sessions EXCEPT ![s] = NoCall]
    /\ UNCHANGED <<use_gemini, client_builds, model_calls, router_client, open_clients, pc,
                   call_text, call_resp, last, clock, user_limit, started, overlapped>>

RateNext ==
    \/ Tick
    \/ \E s \in Sessions : Select(s)
    \/ \E s \in Sessions : Commit(s)
    \/ \E s \in Sessions : DatabaseError(s)

\* the rate limiter on a started service
RateInit == Init /\ use_gemini /\ router_client

RateSpec == RateInit /\ [][RateNext]_vars

\* ----------------------------------------------------------------- claims
PipelineDone == pc = "done" /\ last.op \in Pipelines

\* C1: for every routing decision route_request can return, each of the three
\* pipelines returns a response object and never raises.
C1_PipelinesNeverRaise == PipelineDone => last.outcome = "returned"

HasErroredArg(c) == \E i \in 1..Len(c.args) : c.args[i].error

\* C2: in all three pipelines and on every route, a fetched record with a
\* non-empty error is never handed to an analysis function, and its id still
\* appears in the ids of the response.
C2_ErroredNeverAnalysed ==
    (PipelineDone /\ last.outcome = "returned") =>
        /\ \A c \in last.calls : ~HasErroredArg(c)
        /\ \A i \in 1..Len(last.fetched) :
             last.fetched[i].error => last.fetched[i].id \in Range(last.ids)

MergerDone == pc = "done" /\ last.op = "process_prompt"

\* C3: process_prompt returns an ExtractionResponse and never raises for any
\* pair of extractor outputs; for "Compare ID123 and ID456" it returns a
\* non-empty ids list and an empty links list.
C3_MergerNeverRaises ==
    (MergerDone /\ last.via = "none") =>
        /\ last.outcome = "returned"
        /\ last.prompt = <<"Compare", "ID123", "and", "ID456">> =>
             (last.ids # <<>> /\ last.links = <<>>)

\* C4: if exactly one extractor raises, process_prompt still returns a result
\* that holds the other extractor's contribution, the failed one's being empty.
C4_OneExtractorRaises ==
    (MergerDone /\ last.via \in {"llm", "regex"}) =>
        /\ last.outcome = "returned"
        /\ last.via = "llm" => (last.ids = <<>> /\ Range(last.links) = RegexLinks(last.prompt))
        /\ last.via = "regex" => (last.links = <<>> /\ Range(last.ids) = Range(last.fetched))

ExtractorDone == pc = "done" /\ last.op = "process"

\* the list l enumerates the set S once
ListsSet(l, S) == Range(l) = S /\ Len(l) = Cardinality(S)

\* the pieces of a response that is not JSON
PieceTexts(resp) == { resp.text[i].t : i \in 1..Len(resp.text) }

\* C5 as stated: every failure on the model path (model unavailable, call
\* error, a response that is not a valid JSON array) makes the returned ids
\* exactly the heuristic extractor's output for the same input; never raises.
C5_EveryFailureFallsBack ==
    ExtractorDone =>
        /\ last.outcome = "returned"
        /\ (~use_gemini \/ last.resp.kind # "json_list") =>
             ListsSet(last.ids, _fallback_extraction(last.prompt))

\* C5 as amended: model unavailable, a failed or empty call and a completion
\* that contains "Error" give exactly the heuristic extractor's output for
\* the same input; a completion that does not decode gives ids scraped from
\* the completion itself, one that decodes to a non-list gives no ids; and
\* process never raises.
C5_FailureHandling ==
    ExtractorDone =>
        /\ last.outcome = "returned"
        /\ (~use_gemini \/ last.resp.kind \in {"call_error", "empty", "mentions_error"}) =>
             ListsSet(last.ids, _fallback_extraction(last.prompt))
        /\ (use_gemini /\ last.resp.kind = "bad_json") =>
             Range(last.ids) \subseteq PieceTexts(last.resp)
        /\ (use_gemini /\ last.resp.kind = "json_other") => last.ids = <<>>

C5_Witness ==
    /\ ExtractorDone /\ use_gemini
    /\ last.resp.kind = "empty"
    /\ last.prompt = <<"proposal", "1679", "Discussion", "999">>
    /\ Len(last.ids) = 2

\* C6: once the instance is DEGRADED, every later process call goes straight
\* to the heuristic fallback: no model call is issued, no client is built and
\* the instance never becomes READY.
C6_DegradedIsPermanent ==
    [][~use_gemini =>
         /\ ~use_gemini'
         /\ model_calls' = model_calls
         /\ client_builds' = client_builds
         /\ pc' \notin {"awaiting_model", "got_response"}
         /\ (last'.op = "process" /\ last'.outcome = "returned") => last'.via = "fallback"]_vars

C6_Witness == ~use_gemini /\ ExtractorDone /\ last.via = "fallback" /\ last.ids # <<>>

\* C7: every call to process eventually returns, even when the external
\* model never responds.
C7_ProcessReturns == (pc = "awaiting_model") ~> (pc = "done")

RouteDone == pc = "done" /\ last.op = "route_request"

\* C8: route_request never raises; with the client absent, the model call
\* failing or a response that is not decodable JSON it returns exactly the
\* decision of the regex fallback for the same prompt.
C8_RouteFallsBack ==
    RouteDone =>
        /\ last.outcome = "returned"
        /\ (~router_client \/ last.resp.kind \in {"call_raises", "not_json"}) =>
             last.decision = _fallback_routing_logic(last.prompt)

C8_Witness ==
    /\ RouteDone /\ router_client
    /\ last.resp.kind = "not_json"
    /\ last.decision.data_source = "dynamic"
    /\ Len(last.decision.ID) = 2

\* C9: every routing decision returned by route_request has a data_source
\* that is "dynamic" or "algolia".
C9_KnownDataSource ==
    (RouteDone /\ last.outcome = "returned") =>
        last.decision.data_source \in {"dynamic", "algolia"}

FallbackDone == RouteDone /\ last.via = "fallback"

\* the token is "#" with a number written right after it
NumberAfterHash(t) == t = "#12"

\* a number stands next to proposal/referenda/referendum/discussion/id/#
IdMention(prompt) ==
    \E i \in 1..Len(prompt) :
        \/ /\ IsRouteKeyword(prompt[i])
           /\ \/ i + 1 <= Len(prompt) /\ IsDigits(prompt[i + 1])
              \/ i + 2 <= Len(prompt) /\ Lower(prompt[i + 1]) = "id" /\ IsDigits(prompt[i + 2])
        \/ /\ TrailingDigits(prompt[i]) # ""
           /\ i + 1 <= Len(prompt) /\ IsRouteKeyword(prompt[i + 1])
        \/ Lower(prompt[i]) = "id" /\ i + 1 <= Len(prompt) /\ IsDigits(prompt[i + 1])
        \/ DigitsAfterId(prompt[i]) # ""
        \/ NumberAfterHash(prompt[i])

\* the words of the lowercased prompt that are not stop words
NonStopWords(prompt) ==
    LET words == Words(prompt)
    IN  SelectSeqBy(words, { w \in Range(words) : w \notin stop_words })

\* C10: the fallback router decides DYNAMIC iff a numeric id stands next to
\* proposal/referenda/referendum/discussion/id/#; DYNAMIC has a non-empty,
\* duplicate-free, numerically sorted id list and no keywords; SEARCH has no
\* ids, no type and as keywords the first at most 5 tokens of the lowercased
\* prompt that are not stop words, in prompt order.
C10_FallbackDecision ==
    FallbackDone =>
        LET d == last.decision
        IN  /\ d.data_source = "dynamic" <=> IdMention(last.prompt)
            /\ d.data_source \in {"dynamic", "algolia"}
            /\ d.data_source = "dynamic" =>
                 /\ d.ID # <<>>
                 /\ \A i, j \in 1..Len(d.ID) : d.ID[i] = d.ID[j] => i = j
                 /\ \A i \in 1..(Len(d.ID) - 1) : IntOf(d.ID[i]) <= IntOf(d.ID[i + 1])
                 /\ d.keywords = <<>>
            /\ d.data_source = "algolia" =>
                 /\ d.ID = <<>>
                 /\ d.proposal_type = ""
                 /\ d.keywords = Take(NonStopWords(last.prompt), KeywordLimit)

\* a pipeline call that has returned its response
PipelineReturned == PipelineDone /\ last.outcome = "returned"

\* C11: for a SEARCH decision whose keywords are empty no query is sent to
\* the search index and no proposal fetch is issued during the request.
C11_EmptySearchIsDeadEnd ==
    (PipelineReturned /\ last.decision.data_source = "algolia" /\ last.decision.keywords = <<>>) =>
        /\ last.queries = 0
        /\ last.batches = <<>>

\* the ids a fetch plan names
BatchIds(batches) == UNION { Range(batches[i].ids) : i \in 1..Len(batches) }

\* C12: on the SEARCH route the search index is queried once per request, by
\* the router, and the proposals fetched are those of the hits the router
\* attached to the decision.
C12_AttachedHitsAreConsumed ==
    (PipelineReturned /\ last.decision.data_source = "algolia") =>
        /\ last.queries = IF last.decision.keywords # <<>> THEN 1 ELSE 0
        /\ BatchIds(last.batches) = HitIds(last.search_results) \ {"Unknown"}

\* a pipeline call that took the consolidating branch and returned
Consolidated == PipelineReturned /\ last.decision.data_source \notin {"dynamic", "algolia"}

\* the type the mapping gives to id ("" when id is not a key)
TypeIn(mapping, id) ==
    IF \E i \in 1..Len(mapping) : mapping[i].index = id
    THEN (CHOOSE h \in Range(mapping) : h.index = id).proposalType
    ELSE ""

\* the (id, type) pairs of the recognised links: .../referenda/<digits> is
\* ReferendumV2, .../post/<digits> is Discussion
LinkTypes(links) ==
    { Hit("1679", "ReferendumV2") : l \in Range(links) \cap {URL1} }
    \cup { Hit("999", "Discussion") : l \in Range(links) \cap {URL2} }

\* C13: when consolidating, an id that is in a recognised link has the
\* link-derived type, whether or not it is also a bare id of the text.
C13_LinkTypeWins ==
    Consolidated =>
        \A h \in LinkTypes(last.extraction.links) :
            TypeIn(last.mapping, h.index) = h.proposalType

\* Discussion if "discussion" occurs in the prompt, ReferendumV2 otherwise
DefaultType(prompt) == IF HasDiscussion(prompt) THEN "Discussion" ELSE "ReferendumV2"

\* C14: the type given to a bare id that no link overrides is Discussion if
\* "discussion" occurs in the prompt and ReferendumV2 otherwise, in the
\* fallback router and in every consolidating pipeline.
C14_DefaultTypeFollowsPrompt ==
    /\ (FallbackDone /\ last.decision.data_source = "dynamic") =>
          last.decision.proposal_type = DefaultType(last.prompt)
    /\ Consolidated =>
          \A id \in Range(last.extraction.ids) :
              id \notin { h.index : h \in LinkTypes(last.extraction.links) } =>
                  TypeIn(last.mapping, id) = DefaultType(last.prompt)

\* l is the set S of digit strings in increasing numeric order
SortedListOf(l, S) ==
    /\ ListsSet(l, S)
    /\ \A i \in 1..(Len(l) - 1) : IntOf(l[i]) < IntOf(l[i + 1])

\* C15: when consolidating, the ids of the response are the keys of the
\* id-to-type mapping in numeric order, so an id contributed only by a
\* recognised link is among them.
C15_IdsAreMappingKeys ==
    Consolidated =>
        /\ SortedListOf(last.ids, { last.mapping[i].index : i \in 1..Len(last.mapping) })
        /\ \A h \in LinkTypes(last.extraction.links) : h.index \in Range(last.ids)

\* the known entries of a mapping
KnownEntries(mapping) == { h \in Range(mapping) : h.index # "Unknown" }

\* C16: the fetch plan built from an id-to-type mapping has one
\* fetch_multiple_proposals call per distinct type of the mapping, every id
\* of the mapping is in exactly one batch, the one of its type, and an empty
\* mapping issues no fetch.
C16_OneBatchPerType ==
    (PipelineReturned /\ last.decision.data_source # "dynamic") =>
        LET b == last.batches
            m == KnownEntries(last.mapping)
        IN  /\ \A i, j \in 1..Len(b) : b[i].proposal_type = b[j].proposal_type => i = j
            /\ { b[i].proposal_type : i \in 1..Len(b) } = { h.proposalType : h \in m }
            /\ \A h \in m :
                 \E i \in 1..Len(b) :
                    /\ b[i].proposal_type = h.proposalType
                    /\ Cardinality({ k \in 1..Len(b[i].ids) : b[i].ids[k] = h.index }) = 1
                    /\ \A j \in 1..Len(b) : j # i => h.index \notin Range(b[j].ids)
            /\ BatchIds(b) = { h.index : h \in m }
            /\ m = {} => b = <<>>

C16_Witness ==
    /\ PipelineReturned
    /\ last.op = "general_chat"
    /\ last.batches = <<[proposal_type |-> "ReferendumV2", ids |-> <<"12", "999">>]>>

\* C19: the client that performs the fetches of a request is released when
\* the request's fan-out is over: after a request that fetched, no client
\* used for its fetches is open.
C19_FetchClientReleased ==
    (PipelineReturned /\ last.batches # <<>>) => last.fetch_client \notin open_clients

FetchDone == pc = "done" /\ last.op = "fetch_multiple_proposals"

\* C17: for any list of ids and any completion order of the per-id fetches,
\* fetch_multiple_proposals returns a list as long as its input whose i-th
\* record has the i-th input id.
C17_BatchKeepsInputOrder ==
    FetchDone =>
        /\ last.outcome = "returned"
        /\ Len(last.fetched) = Len(last.ids)
        /\ \A i \in 1..Len(last.ids) : last.fetched[i].id = last.ids[i]

C17_Witness ==
    /\ FetchDone
    /\ last.ids = <<"1679", "999", "1679">>
    /\ last.order = <<3, 1, 2>>
    /\ \A i \in 1..3 : last.outcomes[i] = "ok"
    /\ last.fetched[2].id = "999"

\* C18: in a batch fetch every id whose fetch fails yields a record with that
\* id, title "Error", status "Error" and a non-empty error, every id whose
\* fetch succeeds yields its normal record, and fetch_multiple_proposals
\* never raises.
C18_FailuresAreIsolated ==
    FetchDone =>
        /\ last.outcome = "returned"
        /\ Len(last.fetched) = Len(last.ids)
        /\ \A i \in 1..Len(last.fetched) :
             LET r == last.fetched[i]
             IN  IF last.outcomes[i] = "ok"
                 THEN /\ r.id = last.ids[i]
                      /\ ~r.error
                      /\ r.title # "Error" /\ r.status # "Error"
                      /\ r.proposal_type = last.proposal_type
                 ELSE /\ r.id = last.ids[i]
                      /\ r.error
                      /\ r.title = "Error" /\ r.status = "Error"

C18_Witness ==
    /\ FetchDone
    /\ last.ids = <<"1679", "999", "1679">>
    /\ last.outcomes = <<"http_error", "ok", "raises">>
    /\ last.fetched[1].error /\ ~last.fetched[2].error /\ last.fetched[3].error

RewardDone == pc = "done" /\ last.op = "_calculate_reward"

\* the beneficiaries whose amount is a number: the ones that are counted
Counted(bs) == { i \in 1..Len(bs) : ~AmountRaises(bs[i].amount) }

\* the sum, in ten-thousandths, of the beneficiaries of bs with index in S
RECURSIVE SumOf(_, _)
SumOf(bs, S) ==
    IF S = {} THEN 0
    ELSE LET i == CHOOSE j \in S : TRUE
         IN  (IF bs[i].assetId = "1337" THEN UsdcShare(bs[i].amount) ELSE DotShare(bs[i].amount))
             + SumOf(bs, S \ {i})

\* r is the total (in ten-thousandths) written with two decimals, followed
\* by the label of the last counted beneficiary of bs
WrittenAs(r, total, bs) ==
    LET lastCounted == CHOOSE i \in Counted(bs) : \A j \in Counted(bs) : j <= i
        cents == 100 * r.whole + r.frac
    IN  /\ r.frac \in 0..99
        /\ 100 * cents - total \in (0 - 50)..50
        /\ r.currency = IF bs[lastCounted].assetId = "1337" THEN "USDC" ELSE "DOT"

\* C20: _calculate_reward returns none exactly when the list is empty or the
\* accumulated total is zero; otherwise it returns the total with two
\* decimals and the label of the last counted beneficiary; amount 1000000
\* with assetId 1337 gives "1.00 USDC", 10000000000 with assetId 0 "1.00 DOT".
C20_RewardNoneIffZero ==
    RewardDone =>
        LET bs == last.beneficiaries
            total == SumOf(bs, Counted(bs))
        IN  /\ last.outcome = "returned"
            /\ last.reward.none <=> (bs = <<>> \/ total = 0)
            /\ ~last.reward.none => WrittenAs(last.reward, total, bs)
            /\ bs = <<Beneficiary("1000000", "1337")>> => last.reward = Reward(FALSE, 1, 0, "USDC")
            /\ bs = <<Beneficiary("10000000000", "0")>> => last.reward = Reward(FALSE, 1, 0, "DOT")

\* the amount of b is coerced to an integer
Coercible(b) == ~AmountRaises(b.amount)

\* C21: a beneficiary whose amount cannot be coerced to an integer is
\* skipped: the call returns, and returns what it returns for the list
\* without the uncoercible entries (nothing added to the total, the label
\* unchanged, the remaining entries accumulated).
C21_UncoercibleAmountSkipped ==
    (RewardDone /\ \E i \in 1..Len(last.beneficiaries) : ~Coercible(last.beneficiaries[i])) =>
        /\ last.outcome = "returned"
        /\ last.reward = _calculate_reward(SelectSeq(last.beneficiaries, Coercible)).value

AnalysisDone == pc = "done" /\ last.op = "analyze"

\* the number of error-free records handed to the dispatcher
ErrorFree(proposals) == Cardinality({ i \in 1..Len(proposals) : ~proposals[i].error })

SinglePath(kind) ==
    CASE kind = "summary"        -> "analyze_single_proposal"
      [] kind = "accountability" -> "analyze_single_proposal_accountability"
      [] OTHER                   -> "answer_question_single_proposal"

MultiPath(kind) ==
    CASE kind = "summary"        -> "compare_proposals"
      [] kind = "accountability" -> "compare_proposals_accountability"
      [] OTHER                   -> "answer_question_multiple_proposals"

\* the message of a dispatcher handed a non-empty list of errored records
NoValidMessage(kind) ==
    CASE kind = "summary"        -> <<"No valid proposals to analyze">>
      [] kind = "accountability" -> <<"No valid proposals could be analyzed for accountability.">>
      [] OTHER                   -> <<"No valid proposals could be found to answer your question.">>

\* the message of a dispatcher handed an empty list
NoProposalsMessage(kind) ==
    CASE kind = "summary"        -> <<"No proposals to analyze">>
      [] kind = "accountability" -> <<"No proposals to analyze for accountability.">>
      [] OTHER                   -> <<"No proposals available to answer your question.">>

\* the path a dispatcher takes for n error-free records: none for 0, the
\* single-item method once for 1, the multi-item method once for 2 or more
PathsFor(kind, n) ==
    IF n = 0 THEN <<>> ELSE IF n = 1 THEN <<SinglePath(kind)>> ELSE <<MultiPath(kind)>>

\* C22 as stated: each dispatcher branches on the number of error-free records
\* only: with 0 it returns its one fixed no-data message and invokes neither
\* path; with 1 the single-item path exactly once and not the multi-item
\* path; with 2 or more the multi-item path exactly once, never the
\* single-item path.
C22_BranchOnValidCountOnly ==
    AnalysisDone =>
        LET n == ErrorFree(last.proposals)
        IN  /\ last.paths = PathsFor(last.analyzer, n)
            /\ n = 0 => last.text = NoValidMessage(last.analyzer) /\ last.analysis_calls = 0

\* C22 as amended: as stated, except that with 0 error-free records the
\* message is one of two fixed messages: one for an empty list, another for a
\* non-empty list whose records all carry an error.
C22_BranchOnValidCount ==
    AnalysisDone =>
        LET n == ErrorFree(last.proposals)
        IN  /\ last.paths = PathsFor(last.analyzer, n)
            /\ n = 0 => /\ last.analysis_calls = 0
                        /\ last.outcome = "returned"
                        /\ last.text = IF last.proposals = <<>>
                                       THEN NoProposalsMessage(last.analyzer)
                                       ELSE NoValidMessage(last.analyzer)

C22_Witness ==
    /\ AnalysisDone
    /\ last.analyzer = "accountability"
    /\ Len(last.proposals) = 3
    /\ ErrorFree(last.proposals) = 2
    /\ last.proposals[1].error
    /\ last.paths = <<"compare_proposals_accountability">>

\* the model is unavailable (no client) or its call fails
ModelFails == ~last.client \/ last.model_outcome \in {"raises", "no_text"}

\* a piece of text that came from the model
FromModel(piece) == piece \in { Strip(ModelText(o)) : o \in ModelOutcomes }

\* C23: when the model is unavailable or its call fails, every dispatcher
\* path (single-item and multi-item; summary, accountability, general Q&A)
\* returns a fallback string and does not raise; the string is fixed by the
\* dispatcher and the records, whatever the failure was.
C23_FailureGivesFallbackString ==
    (AnalysisDone /\ ErrorFree(last.proposals) >= 1 /\ ModelFails) =>
        /\ last.outcome = "returned"
        /\ last.text # <<>>
        /\ \A i \in 1..Len(last.text) : ~FromModel(last.text[i])
        /\ last.client =>
              last.text = Dispatch(last.analyzer, last.proposals, TRUE, "raises").text

C23_Witness ==
    /\ AnalysisDone
    /\ last.analyzer = "general_chat"
    /\ ErrorFree(last.proposals) = 2
    /\ last.client
    /\ last.model_outcome = "raises"
    /\ last.analysis_calls = 1
    /\ last.text = <<"Error generating answer for the proposals.">>

\* C24: for one or more error-free records and an available model, every
\* dispatcher (summary, comparison, accountability, general Q&A) issues a call
\* to the model and returns the model's text unchanged, with no locally
\* generated text added.
C24_ModelTextVerbatim ==
    (/\ AnalysisDone
     /\ ErrorFree(last.proposals) >= 1
     /\ last.client
     /\ last.model_outcome \in {"text", "padded_text"}) =>
        /\ last.analysis_calls >= 1
        /\ last.text = <<ModelText(last.model_outcome)>>

\* a comes before b in the order of str
LexLess(a, b) == a = URL2 /\ b = URL1

\* C25: every ExtractionResponse process_prompt returns has ids without
\* duplicates in non-decreasing numeric order and links without duplicates
\* in ascending lexical order, each the union of what the two extractors
\* produced.
C25_ResponseSortedUnion ==
    (MergerDone /\ last.outcome = "returned") =>
        /\ \A i, j \in 1..Len(last.ids) : i < j =>
              /\ last.ids[i] # last.ids[j]
              /\ IntOf(last.ids[i]) <= IntOf(last.ids[j])
        /\ Range(last.ids) = Range(last.fetched)
        /\ \A i, j \in 1..Len(last.links) : i < j => LexLess(last.links[i], last.links[j])
        /\ Range(last.links) = RegexLinks(last.prompt)

C25_Witness ==
    /\ MergerDone
    /\ last.outcome = "returned"
    /\ Len(last.ids) >= 2
    /\ Len(last.links) = 2
    /\ last.fetched # last.ids

\* process ran on a degraded instance: its result is _fallback_extraction's
HeuristicDone == ExtractorDone /\ last.via = "fallback" /\ last.resp = NoResp

\* the number embedded in the path of a URL of the vocabulary
EmbeddedNumber(url) == TrailingDigits(url)

\* C26: for every prompt that contains a URL whose path embeds a number of 3
\* or more digits and that has no other standalone mention of that number,
\* the heuristic id extractor (URL-present mode) returns a set that does not
\* contain that number.
C26_UrlNumberExcluded ==
    HeuristicDone =>
        \A i \in 1..Len(last.prompt) :
            (/\ IsUrl(last.prompt[i])
             /\ StrLen(EmbeddedNumber(last.prompt[i])) >= 3
             /\ \A j \in 1..Len(last.prompt) : last.prompt[j] # EmbeddedNumber(last.prompt[i]))
            => EmbeddedNumber(last.prompt[i]) \notin Range(last.ids)

C26_Witness ==
    /\ HeuristicDone
    /\ last.prompt = <<"proposal", "1679", URL2>>
    /\ last.ids = <<"1679">>

\* process_prompt_with_proposals returned on the SEARCH route with at least
\* one retrieved proposal
SearchAnalysed ==
    /\ PipelineReturned
    /\ last.op = "proposals"
    /\ last.decision.data_source = "algolia"
    /\ last.fetched # <<>>

\* the analyzer functions _process_algolia_result_with_gemini calls
AnalyzerCalls ==
    { c \in last.calls : c.fn \in {"analyze_single_proposal", "compare_proposals"} }

\* C29: on the SEARCH route with at least one retrieved proposal and a
\* working analyzer, _process_algolia_result_with_gemini calls the analyzer
\* (the single-item analysis for one proposal, the comparison for more), the
\* call is carried out, and the text it returns is never the 'analysis
\* encountered an error' text.
C29_SearchReturnsAnalyzerText ==
    SearchAnalysed =>
        /\ \E c \in AnalyzerCalls :
              /\ c.accepted
              /\ c.fn = IF Len(last.fetched) = 1
                        THEN "analyze_single_proposal" ELSE "compare_proposals"
        /\ last.analysis # "analysis_encountered_an_error"

\* the calls of check_rate_limit so far came one after another and no
\* database call raised
Sequential == ~overlapped /\ ~db_failed

\* the call found no window open: no row, or a row whose reset_time has come
Fresh(e) == ~e.before.present \/ e.now >= e.before.reset_time

\* the calls 1..k that returned since the last window reset at or before k
SinceReset(k) ==
    { j \in 1..k : \A i \in (j + 1)..k : ~Fresh(history[i]) }

\* C27: with no database error and calls made one after another, the first
\* request of a window sets the count to 1, each allowed request increments
\* it by one and returns the limit minus the count after it, a request made
\* when the count has reached the limit is denied with remaining 0 and
\* leaves the count unchanged, and at most requests_per_window requests are
\* allowed between two window resets.
C27_SequentialWindowCount ==
    Sequential =>
        \A k \in 1..Len(history) :
            LET e == history[k]
            IN  /\ Fresh(e) =>
                      /\ e.is_allowed
                      /\ e.after.request_count = 1
                      /\ e.remaining = requests_per_window - 1
                /\ (~Fresh(e) /\ e.before.request_count < requests_per_window) =>
                      /\ e.is_allowed
                      /\ e.after.request_count = e.before.request_count + 1
                      /\ e.remaining = requests_per_window - e.after.request_count
                /\ (~Fresh(e) /\ e.before.request_count >= requests_per_window) =>
                      /\ ~e.is_allowed
                      /\ e.remaining = 0
                      /\ e.after = e.before
                /\ Cardinality({ j \in SinceReset(k) : history[j].is_allowed }) <= requests_per_window

C27_Witness ==
    /\ Sequential
    /\ \E k \in 2..(Len(history) - 1) :
          /\ history[k - 1].is_allowed
          /\ history[k - 1].after.request_count = requests_per_window
          /\ history[k - 1].remaining = 0
          /\ ~history[k].is_allowed
          /\ Fresh(history[k + 1]) /\ history[k + 1].is_allowed
          /\ history[k + 1].after.request_count = 1

\* the calls that were allowed and made in the interval [t, t + window size)
AllowedIn(t) ==
    { k \in 1..Len(history) :
        /\ history[k].is_allowed
        /\ t <= history[k].now
        /\ history[k].now < t + window_size_seconds }

\* C28: the limiter is a sliding-window limiter: in any time interval of the
\* length of the window, at most requests_per_window requests of the user are
\* allowed.
C28_SlidingWindow ==
    Sequential => \A t \in 0..MaxTime : Cardinality(AllowedIn(t)) <= requests_per_window

\* C30: when check_rate_limit calls of one user run concurrently, each in its
\* own session, the calls allowed within one window (from a window reset on,
\* for the length of the window) never exceed requests_per_window, and the
\* concurrent first requests of a new user are not all taken for request
\* number 1: at most one call finds no row.
C30_ConcurrentCallsWithinLimit ==
    ~db_failed =>
        /\ \A k \in 1..Len(history) :
              Fresh(history[k]) =>
                  Cardinality(AllowedIn(history[k].now)) <= requests_per_window
        /\ Cardinality({ k \in 1..Len(history) : ~history[k].seen.present }) <= 1

=============================================================================
